---- MODULE Spec2Model ----
(***************************************************************************)
(* Model of soynlp's dictionary-driven tagger core:                        *)
(*   soynlp/postagger/newstagger/_template.py  (Eojeol, LookupBuffer,      *)
(*       LRLookup, TemplateLookup, lr_lookup, template_lookup, remove_sub, *)
(*       lemmatize, check_tag, get_tag)                                    *)
(*   soynlp/pos/_pos.py  (POSExtractor._remove_confused_nouns,             *)
(*       POSExtractor._is_noun_predicator_compound)                        *)
(*                                                                         *)
(* A Python str is a sequence of one-character strings; "a" and "b" stand  *)
(* for complete Korean syllables, "x" for a character that is not one and  *)
(* " " for whitespace.  A Python list is a sequence, a dict a function (or *)
(* a sequence of key/value records where its insertion order is read), a   *)
(* set a set.  Python index i is TLA+ index i+1.                           *)
(***************************************************************************)
EXTENDS Integers, Sequences, FiniteSets, TLC

VARIABLES
    pos_to_words,       \* LRLookup.pos_to_words: tag -> set of words
    lemmatizer,         \* LRLookup.lemmatizer: the analyses the Lemmatizer knows
    templates,          \* TemplateLookup.templates: sequence of tag tuples
    max_word_len,       \* LRLookup.max_word_len
    strategy,           \* class of the lookup object: "LRLookup" / "TemplateLookup"
    buffer,             \* LookupBuffer.buffer: token -> stored result
    _buffer_counter,    \* LookupBuffer._buffer_counter: items in insertion order
    calls,              \* history: token -> number of self.lookup.eojeol_lookup calls
    lookups,            \* history: token -> number of LookupBuffer.eojeol_lookup calls
    evicted,            \* history: tokens dropped by compatify_buffer and not stored since
    preanalyzed,        \* history: the keys LookupBuffer was constructed with
    compacted,          \* history: compatify_buffer has cut the cache
    call,               \* the operation that ran last (or, for a function, its input)
    ret                 \* what it returned

vars == <<pos_to_words, lemmatizer, templates, max_word_len, strategy, buffer,
          _buffer_counter, calls, lookups, evicted, preanalyzed, compacted,
          call, ret>>

objVars == <<pos_to_words, lemmatizer, templates, max_word_len, strategy>>

cacheVars == <<buffer, _buffer_counter, calls, lookups, evicted, preanalyzed,
               compacted>>

(***************************************************************************)
(* Bounds of the model.                                                    *)
(***************************************************************************)
MaxLen == 3         \* longest token (eojeol) looked up
MaxOffset == 1      \* largest offset passed to a lookup function directly
MaxSentLen == 4     \* longest sentence, in characters
MaxLenArg == 2      \* largest max_word_len passed to LRLookup
MaxNounLen == 4     \* longest string given to _is_noun_predicator_compound
MaxLookups == 3     \* eojeol lookups made through one LookupBuffer
MaxTopK == 2        \* largest topk passed to compatify_buffer

(***************************************************************************)
(* Strings.                                                                *)
(***************************************************************************)
KoreanChars == {"a", "b"}

Chars == KoreanChars \cup {"x"}

Space == " "

EmptyStr == << >>

StrsOver(alphabet, n) == UNION {[1..k -> alphabet] : k \in 0..n}

\* str[b:e] for 0 <= b <= e <= len(str)
Slice(s, b, e) == SubSeq(s, b + 1, e)

RECURSIVE SeqSum(_)
SeqSum(s) == IF s = << >> THEN 0 ELSE Head(s) + SeqSum(Tail(s))

RECURSIVE Flatten(_)
Flatten(ss) == IF ss = << >> THEN << >> ELSE Head(ss) \o Flatten(Tail(ss))

Range(s) == {s[i] : i \in DOMAIN s}

RECURSIVE SetToSeq(_)
SetToSeq(S) ==
    IF S = {} THEN << >>
    ELSE LET x == CHOOSE y \in S : TRUE IN <<x>> \o SetToSeq(S \ {x})

Max(a, b) == IF a >= b THEN a ELSE b

Min(a, b) == IF a <= b THEN a ELSE b

(***************************************************************************)
(* Eojeol: the segment record.                                             *)
(***************************************************************************)
NoneTag == "None"

Eojeol(w0, w1, t0, t1, b, m, e) ==
    [w0 |-> w0, w1 |-> w1, t0 |-> t0, t1 |-> t1, b |-> b, m |-> m, e |-> e]

(***************************************************************************)
(* Collaborators outside the two files.                                    *)
(***************************************************************************)
\* soynlp.hangle.character_is_complete_korean
character_is_complete_korean(c) == c \in KoreanChars

\* Lemmatizer.lemmatize(word): the (stem, ending, tag0, tag1) analyses of word,
\* in the order the lemmatizer lists them.  It has none for the empty string.
LemmatizerLemmatize(lem, word) == SelectSeq(lem, LAMBDA r : r.word = word)

\* soynlp.normalizer.remove_doublespace: runs of spaces collapse to one space
RECURSIVE remove_doublespace(_)
remove_doublespace(s) ==
    IF Len(s) < 2 THEN s
    ELSE IF s[1] = Space /\ s[2] = Space THEN remove_doublespace(Tail(s))
    ELSE <<s[1]>> \o remove_doublespace(Tail(s))

\* str.split(): the maximal runs of non-space characters, in order
RECURSIVE SplitFrom(_, _)
SplitFrom(s, cur) ==
    IF s = << >> THEN (IF cur = << >> THEN << >> ELSE <<cur>>)
    ELSE IF Head(s) = Space
         THEN (IF cur = << >> THEN << >> ELSE <<cur>>) \o SplitFrom(Tail(s), << >>)
         ELSE SplitFrom(Tail(s), Append(cur, Head(s)))

Split(s) == SplitFrom(s, << >>)

(***************************************************************************)
(* lemmatize, check_tag, get_tag                                           *)
(***************************************************************************)
is_hangle(word) == \A i \in DOMAIN word : character_is_complete_korean(word[i])

RECURSIVE MorphsOf(_, _, _)
MorphsOf(analyses, word, offset) ==
    IF analyses = << >> THEN << >>
    ELSE LET a == Head(analyses)
         IN  <<Eojeol(a.w0, a.w1, a.t0, a.t1,
                      offset, offset + Len(a.w0), offset + Len(word))>>
             \o MorphsOf(Tail(analyses), word, offset)

\* lemmatize(word, lemmatizer, offset) with ensure_hangle left at False
lemmatize(word, lem, offset) ==
    IF ~is_hangle(word) THEN << >>
    ELSE MorphsOf(LemmatizerLemmatize(lem, word), word, offset)

check_tag(word, tag, dic) == tag \in DOMAIN dic /\ word \in dic[tag]

\* the order of pos_to_words.items()
TagOrder == <<"Noun", "Josa", "Pronoun">>

get_tag(word, dic) ==
    SelectSeq(TagOrder, LAMBDA tag : tag \in DOMAIN dic /\ word \in dic[tag])

(***************************************************************************)
(* lr_lookup                                                               *)
(***************************************************************************)
\* lr_lookup_step with the right part's analyses filed under bucket 0
lr_lookup_step_bucket0(bindex, eojeol, lem, dic, offset, i) ==
    LET n == Len(eojeol)
        l == Slice(eojeol, 0, i)
        r == Slice(eojeol, i, n)
        b1 == IF check_tag(l, "Noun", dic) /\ check_tag(r, "Josa", dic)
              THEN [bindex EXCEPT ![1] = Append(@,
                        Eojeol(l, r, "Noun", "Josa", offset, offset + i, offset + n))]
              ELSE bindex
        l_pred == lemmatize(l, lem, offset)
        r_pred == lemmatize(r, lem, offset + i)
    IN  IF (check_tag(l, "Noun", dic) \/ l_pred # << >>) /\ r_pred # << >>
        THEN LET b2 == IF check_tag(l, "Noun", dic)
                       THEN [b1 EXCEPT ![1] = Append(@,
                                Eojeol(l, EmptyStr, "Noun", NoneTag,
                                       offset, offset + i, offset + i))]
                       ELSE [b1 EXCEPT ![1] = @ \o l_pred]
             IN  [b2 EXCEPT ![1] = @ \o r_pred]
        ELSE b1

\* one pass of the loop body for split index i, on the lattice built so far
lr_lookup_step(bindex, eojeol, lem, dic, offset, i) ==
    LET n == Len(eojeol)
        l == Slice(eojeol, 0, i)
        r == Slice(eojeol, i, n)
        b1 == IF check_tag(l, "Noun", dic) /\ check_tag(r, "Josa", dic)
              THEN [bindex EXCEPT ![1] = Append(@,
                        Eojeol(l, r, "Noun", "Josa", offset, offset + i, offset + n))]
              ELSE bindex
        l_pred == lemmatize(l, lem, offset)
        r_pred == lemmatize(r, lem, offset + i)
    IN  IF (check_tag(l, "Noun", dic) \/ l_pred # << >>) /\ r_pred # << >>
        THEN LET b2 == IF check_tag(l, "Noun", dic)
                       THEN [b1 EXCEPT ![1] = Append(@,
                                Eojeol(l, EmptyStr, "Noun", NoneTag,
                                       offset, offset + i, offset + i))]
                       ELSE [b1 EXCEPT ![1] = @ \o l_pred]
             IN  [b2 EXCEPT ![i + 1] = @ \o r_pred]
        ELSE b1

RECURSIVE lr_lookup_loop(_, _, _, _, _, _)
lr_lookup_loop(bindex, eojeol, lem, dic, offset, i) ==
    IF i > Len(eojeol) THEN bindex
    ELSE lr_lookup_loop(lr_lookup_step(bindex, eojeol, lem, dic, offset, i),
                        eojeol, lem, dic, offset, i + 1)

lr_lookup(eojeol, lem, dic, offset) ==
    LET n == Len(eojeol)
        bindex == [i \in 1..n |-> IF i = 1 THEN lemmatize(eojeol, lem, offset)
                                  ELSE << >>]
    IN  lr_lookup_loop(bindex, eojeol, lem, dic, offset, 1)

(***************************************************************************)
(* remove_sub                                                              *)
(***************************************************************************)
\* exist_overlap_l scanning from b + 1: the bucket at the split is not looked at
exist_overlap_l_from_next(b, e, bindex, offset) ==
    \E i \in (b + 1)..(e - 1) :
        \E k \in DOMAIN bindex[i - offset + 1] :
            LET eojeol == bindex[i - offset + 1][k]
            IN  (b < eojeol.m) /\ (eojeol.b < e)

\* skip with eojeol.e <= e: a record is dominated by an equally long one
skip_not_longer(eojeol, bm_pair, me_pair) ==
    \/ \E p \in bm_pair :
          (eojeol.w1 = EmptyStr) /\ (eojeol.b = p[1]) /\ (eojeol.m = p[2])
          /\ (eojeol.t0 = p[3])
    \/ \E p \in me_pair :
          (eojeol.w1 # EmptyStr) /\ (eojeol.m = p[1]) /\ (eojeol.e <= p[2])
          /\ (eojeol.t1 = p[3])

exist_overlap_l(b, e, bindex, offset) ==
    \E i \in b..(e - 1) :
        \E k \in DOMAIN bindex[i - offset + 1] :
            LET eojeol == bindex[i - offset + 1][k]
            IN  (b < eojeol.m) /\ (eojeol.b < e)

skip(eojeol, bm_pair, me_pair) ==
    \/ \E p \in bm_pair :
          (eojeol.w1 = EmptyStr) /\ (eojeol.b = p[1]) /\ (eojeol.m = p[2])
          /\ (eojeol.t0 = p[3])
    \/ \E p \in me_pair :
          (eojeol.w1 # EmptyStr) /\ (eojeol.m = p[1]) /\ (eojeol.e < p[2])
          /\ (eojeol.t1 = p[3])

\* the two-part records of a bucket whose right span no record overlaps
NonOverlapped(eojeols, bindex, offset) ==
    {eojeols[k] : k \in {j \in DOMAIN eojeols :
        eojeols[j].w1 # EmptyStr
        /\ ~exist_overlap_l(eojeols[j].m, eojeols[j].e, bindex, offset)}}

\* the body of the loop over enumerate(bindex), for the bucket at TLA+ index k
remove_sub_step(bindex, offset, k) ==
    LET eojeols == bindex[k]
        free == NonOverlapped(eojeols, bindex, offset)
        bm_pair == {<<r.b, r.m, r.t0>> : r \in free}
        me_pair == {<<r.m, r.e, r.t1>> : r \in free}
        eojeols_ == SelectSeq(eojeols, LAMBDA r : ~skip(r, bm_pair, me_pair))
    IN  [bindex EXCEPT ![k] = eojeols_]

RECURSIVE remove_sub_loop(_, _, _)
remove_sub_loop(bindex, offset, k) ==
    IF k > Len(bindex) THEN bindex
    ELSE remove_sub_loop(remove_sub_step(bindex, offset, k), offset, k + 1)

remove_sub(bindex, offset) == remove_sub_loop(bindex, offset, 1)

(***************************************************************************)
(* template_lookup                                                         *)
(***************************************************************************)
FlatMap(s, f(_)) == Flatten([i \in DOMAIN s |-> f(s[i])])

\* "string match": bucket b (0-based) of the raw lattice of tagged spans
string_match_bucket(eojeol, dic, max_len, b) ==
    LET n == Len(eojeol)
        ends == [j \in 1..(Min(b + max_len, n) - b) |-> b + j]
        spans(e) == LET sub == Slice(eojeol, b, e)
                        tags == get_tag(sub, dic)
                    IN  [j \in DOMAIN tags |->
                            [w |-> sub, t |-> tags[j], b |-> b, e |-> e]]
    IN  FlatMap(ends, spans)

string_match(eojeol, dic, max_len) ==
    [i \in 1..Len(eojeol) |-> string_match_bucket(eojeol, dic, max_len, i - 1)]

\* the predicators set collected in the same loop
template_predicators(eojeol, lem, max_len, offset) ==
    LET n == Len(eojeol)
    IN  UNION {Range(lemmatize(Slice(eojeol, be[1], be[2]), lem, offset + be[1])) :
               be \in {x \in (0..(n - 1)) \X (1..n) :
                          x[1] + 1 <= x[2] /\ x[2] <= Min(x[1] + max_len, n)}}

\* "as Eojeol": what one raw span adds to its bucket under one template
as_eojeol_one(raw, n, morph, t, offset) ==
    IF Len(t) = 1 /\ morph.t = t[1]
    THEN <<Eojeol(morph.w, EmptyStr, morph.t, NoneTag,
                  offset + morph.b, offset + morph.e, offset + morph.e)>>
    ELSE IF morph.e < n /\ Len(t) = 2 /\ morph.t = t[1]
    THEN LET right == SelectSeq(raw[morph.e + 1], LAMBDA r : r.t = t[2])
         IN  [j \in DOMAIN right |->
                 Eojeol(morph.w, right[j].w, morph.t, right[j].t,
                        offset + morph.b, offset + right[j].b, offset + right[j].e)]
    ELSE << >>

as_eojeol(raw, tpls, offset) ==
    LET n == Len(raw)
        perMorph(morph) ==
            LET perTemplate(t) == as_eojeol_one(raw, n, morph, t, offset)
            IN  FlatMap(tpls, perTemplate)
    IN  [i \in 1..n |-> FlatMap(raw[i], perMorph)]

\* "add predicators": each collected analysis goes to the bucket of its begin
add_predicators(bindex_, predicators, offset) ==
    [i \in DOMAIN bindex_ |->
        bindex_[i] \o SetToSeq({w \in predicators : w.b - offset = i - 1})]

template_lookup(eojeol, lem, dic, tpls, max_len, offset) ==
    LET raw == string_match(eojeol, dic, max_len)
        predicators == template_predicators(eojeol, lem, max_len, offset)
        combined == as_eojeol(raw, tpls, offset)
        pruned == remove_sub(combined, offset)
    IN  add_predicators(pruned, predicators, offset)

(***************************************************************************)
(* LRLookup and TemplateLookup: construction                               *)
(***************************************************************************)
\* the keys of pos_to_words, in dict order
DictKeys(dic) == SelectSeq(TagOrder, LAMBDA tag : tag \in DOMAIN dic)

MaxOfSet(S) == CHOOSE x \in S : \A y \in S : y <= x

RECURSIVE max_word_len_loop(_, _, _)
max_word_len_loop(dic, keys, cur) ==
    IF keys = << >> THEN cur
    ELSE LET words == dic[Head(keys)]
         IN  IF words = {} THEN max_word_len_loop(dic, Tail(keys), cur)
             ELSE max_word_len_loop(dic, Tail(keys),
                      Max(MaxOfSet({Len(word) : word \in words}), cur))

\* LRLookup._check_max_word_len, entered with self.max_word_len = cur
_check_max_word_len(dic, cur) ==
    IF DOMAIN dic = {} THEN [st |-> "ValueError"]
    ELSE [st |-> "ok", val |-> max_word_len_loop(dic, DictKeys(dic), cur)]

\* LRLookup.__init__(pos_to_words, max_word_len, lemmatizer) with a lemmatizer given
LRLookup_init(dic, max_len_arg) ==
    IF max_len_arg = 0 THEN _check_max_word_len(dic, max_len_arg)
    ELSE [st |-> "ok", val |-> max_len_arg]

DefaultTemplates ==
    << <<"Noun">>, <<"Pronoun">>, <<"Adverb">>, <<"Exclamation">>,
       <<"Noun", "Josa">>, <<"Pronoun", "Josa">>, <<"Adverb", "Josa">> >>

\* TemplateLookup._template_format_check: sorted(set(templates), key=len)
_template_format_check(tpls) ==
    IF \E i \in DOMAIN tpls : Len(tpls[i]) > 2 THEN [st |-> "ValueError"]
    ELSE [st |-> "ok",
          val |-> SetToSeq({t \in Range(tpls) : Len(t) = 0})
                  \o SetToSeq({t \in Range(tpls) : Len(t) = 1})
                  \o SetToSeq({t \in Range(tpls) : Len(t) = 2})]

\* TemplateLookup.__init__(pos_to_words, templates, lemmatizer=lemmatizer);
\* tpls = << "None" >> stands for templates=None
NoTemplates == <<"None">>

TemplateLookup_init(dic, tpls) ==
    LET base == LRLookup_init(dic, 0)
        fmt == _template_format_check(IF tpls = NoTemplates THEN DefaultTemplates
                                      ELSE tpls)
    IN  IF base.st # "ok" THEN base
        ELSE IF fmt.st # "ok" THEN fmt
        ELSE [st |-> "ok", val |-> base.val, templates |-> fmt.val]

(***************************************************************************)
(* LRLookup / TemplateLookup: eojeol_lookup and sentence_lookup            *)
(***************************************************************************)
\* self.eojeol_lookup of the object [kind, dic, lem, tpls, max_len]
eojeol_lookup(obj, eojeol, offset) ==
    IF obj.kind = "LRLookup"
    THEN lr_lookup(eojeol, obj.lem, obj.dic, offset)
    ELSE template_lookup(eojeol, obj.lem, obj.dic, obj.tpls, obj.max_len, offset)

RECURSIVE sentence_loop(_, _, _)
sentence_loop(obj, tokens, sent) ==
    IF tokens = << >> THEN sent
    ELSE sentence_loop(obj, Tail(tokens),
                       sent \o eojeol_lookup(obj, Head(tokens), Len(sent)))

sentence_lookup(obj, sentence) ==
    sentence_loop(obj, Split(remove_doublespace(sentence)), << >>)

\* the lookup object the state holds
Self ==
    [kind |-> strategy, dic |-> pos_to_words, lem |-> lemmatizer,
     tpls |-> templates, max_len |-> max_word_len]

(***************************************************************************)
(* Inputs.                                                                 *)
(***************************************************************************)
NoRet == [st |-> "none"]

Ok(v) == [st |-> "ok", val |-> v]

\* analyses a Lemmatizer may hold: a regular split (ba = b + a), a contracted
\* form whose stem is as long as the surface form (b = b + a), and one for a
\* surface form that is not Hangul
RuleList ==
    << [word |-> <<"b", "a">>, w0 |-> <<"b">>, w1 |-> <<"a">>,
        t0 |-> "Verb", t1 |-> "Eomi"],
       [word |-> <<"b">>, w0 |-> <<"b">>, w1 |-> <<"a">>,
        t0 |-> "Verb", t1 |-> "Eomi"],
       [word |-> <<"x", "a">>, w0 |-> <<"x">>, w1 |-> <<"a">>,
        t0 |-> "Adjective", t1 |-> "Eomi"] >>

PickSeq(s, idx) == SelectSeq([i \in DOMAIN s |-> <<i, s[i]>>], LAMBDA p : p[1] \in idx)

Lemmatizers ==
    {[i \in DOMAIN PickSeq(RuleList, idx) |-> PickSeq(RuleList, idx)[i][2]] :
        idx \in SUBSET DOMAIN RuleList}

LookupDicts ==
    {[tag \in {"Noun", "Josa"} |-> IF tag = "Noun" THEN nouns ELSE josas] :
        nouns \in SUBSET {<<"a">>, <<"a", "b">>}, josas \in SUBSET {<<"b">>}}

Tokens == StrsOver(Chars, MaxLen) \ {EmptyStr}

Offsets == 0..MaxOffset

NoCache ==
    /\ buffer = << >>
    /\ _buffer_counter = << >>
    /\ calls = << >>
    /\ lookups = << >>
    /\ evicted = {}
    /\ preanalyzed = {}
    /\ compacted = FALSE

(***************************************************************************)
(* SpecLookup: eojeol_lookup of a constructed LRLookup / TemplateLookup,   *)
(* and lemmatize, applied to every token and offset.                       *)
(***************************************************************************)
LookupInit ==
    /\ strategy \in {"LRLookup", "TemplateLookup"}
    /\ pos_to_words \in LookupDicts
    /\ lemmatizer \in Lemmatizers
    /\ templates = IF strategy = "TemplateLookup"
                   THEN TemplateLookup_init(pos_to_words, NoTemplates).templates
                   ELSE << >>
    /\ max_word_len = LRLookup_init(pos_to_words, 0).val
    /\ NoCache
    /\ call \in [fn : {"eojeol_lookup", "lemmatize"}, eojeol : Tokens, offset : Offsets]
    /\ ret = NoRet

EojeolLookupCall ==
    /\ call.fn = "eojeol_lookup"
    /\ ret = NoRet
    /\ ret' = Ok(eojeol_lookup(Self, call.eojeol, call.offset))
    /\ UNCHANGED <<objVars, cacheVars, call>>

LemmatizeCall ==
    /\ call.fn = "lemmatize"
    /\ ret = NoRet
    /\ ret' = Ok(lemmatize(call.eojeol, lemmatizer, call.offset))
    /\ UNCHANGED <<objVars, cacheVars, call>>

LookupNext == EojeolLookupCall \/ LemmatizeCall

SpecLookup == LookupInit /\ [][LookupNext]_vars

(***************************************************************************)
(* Claims on SpecLookup.                                                   *)
(***************************************************************************)
\* the records a finished call returned
Returned ==
    IF ret.st # "ok" THEN {}
    ELSE IF call.fn = "lemmatize" THEN Range(ret.val)
    ELSE UNION {Range(ret.val[i]) : i \in DOMAIN ret.val}

\* C4: every record produced by lr_lookup, template_lookup or lemmatize has
\* b <= m <= e, and its right text is empty iff its right tag is None iff m = e.
C4_SegmentInvariant ==
    \A r \in Returned :
        /\ r.b <= r.m /\ r.m <= r.e
        /\ (r.w1 = EmptyStr) <=> (r.t1 = NoneTag)
        /\ (r.t1 = NoneTag) <=> (r.m = r.e)

\* the split indexes of the looked-up token whose left part is a dictionary
\* Noun and for whose right part the Lemmatizer has an analysis
NounPredSplits ==
    {i \in 1..(Len(call.eojeol) - 1) :
        /\ check_tag(Slice(call.eojeol, 0, i), "Noun", pos_to_words)
        /\ LemmatizerLemmatize(lemmatizer,
               Slice(call.eojeol, i, Len(call.eojeol))) # << >>}

LrDone == call.fn = "eojeol_lookup" /\ strategy = "LRLookup" /\ ret.st = "ok"

\* C6 as claimed: a Noun left part and a right part with a predicate analysis
\* give one two-part record (left, right, Noun, predicate tag) over the whole token.
C6_TwoPartRecord ==
    LrDone =>
        \A i \in NounPredSplits :
            LET n == Len(call.eojeol)
                right == Slice(call.eojeol, i, n)
                analyses == LemmatizerLemmatize(lemmatizer, right)
            IN  \E r \in Returned :
                    /\ r.w0 = Slice(call.eojeol, 0, i) /\ r.w1 = right
                    /\ r.t0 = "Noun"
                    /\ r.t1 \in {analyses[k].t0 : k \in DOMAIN analyses}
                    /\ r.b = call.offset /\ r.m = call.offset + i
                    /\ r.e = call.offset + n

\* C6 amended: when the right part is Hangul, bucket 0 holds the one-part Noun
\* record of the left part ending at the split, and bucket i holds one record per
\* analysis of the right part, from the split to the end of the token.
C6_NounThenPredicate ==
    LrDone =>
        \A i \in NounPredSplits :
            LET n == Len(call.eojeol)
                right == Slice(call.eojeol, i, n)
                analyses == LemmatizerLemmatize(lemmatizer, right)
            IN  is_hangle(right) =>
                /\ Eojeol(Slice(call.eojeol, 0, i), EmptyStr, "Noun", NoneTag,
                          call.offset, call.offset + i, call.offset + i)
                       \in Range(ret.val[1])
                /\ \A k \in DOMAIN analyses :
                       Eojeol(analyses[k].w0, analyses[k].w1, analyses[k].t0,
                              analyses[k].t1, call.offset + i,
                              call.offset + i + Len(analyses[k].w0),
                              call.offset + n)
                           \in Range(ret.val[i + 1])

C6_Witness ==
    /\ LrDone
    /\ \E i \in NounPredSplits :
           /\ is_hangle(Slice(call.eojeol, i, Len(call.eojeol)))
           /\ call.offset > 0

(***************************************************************************)
(* SpecSentence: sentence_lookup of a constructed LRLookup/TemplateLookup. *)
(***************************************************************************)
\* sentences that neither start nor end with a space
Sentences ==
    {s \in StrsOver({"a", "b", Space}, MaxSentLen) :
        s # EmptyStr => (s[1] # Space /\ s[Len(s)] # Space)}

SentenceInit ==
    /\ strategy \in {"LRLookup", "TemplateLookup"}
    /\ pos_to_words \in LookupDicts
    /\ lemmatizer \in Lemmatizers
    /\ templates = IF strategy = "TemplateLookup"
                   THEN TemplateLookup_init(pos_to_words, NoTemplates).templates
                   ELSE << >>
    /\ max_word_len = LRLookup_init(pos_to_words, 0).val
    /\ NoCache
    /\ call \in [fn : {"sentence_lookup"}, sentence : Sentences]
    /\ ret = NoRet

SentenceLookupCall ==
    /\ call.fn = "sentence_lookup"
    /\ ret = NoRet
    /\ ret' = Ok(sentence_lookup(Self, call.sentence))
    /\ UNCHANGED <<objVars, cacheVars, call>>

SentenceNext == SentenceLookupCall

SpecSentence == SentenceInit /\ [][SentenceNext]_vars

\* the surface strings a record can stand for: its two texts joined, or the
\* form the Lemmatizer analysed into them
SurfaceOf(r) ==
    {r.w0 \o r.w1} \cup
    {a.word : a \in {x \in Range(lemmatizer) :
                        x.w0 = r.w0 /\ x.w1 = r.w1 /\ x.t0 = r.t0 /\ x.t1 = r.t1}}

\* C5: b, m and e of every record sentence_lookup returns are positions in the
\* whitespace-normalized sentence, separating spaces counted: the record's
\* text is the characters [b, e) of that sentence.
C5_PositionsInNormalizedSentence ==
    (call.fn = "sentence_lookup" /\ ret.st = "ok") =>
        LET norm == remove_doublespace(call.sentence)
        IN  \A r \in Returned :
                /\ 0 <= r.b /\ r.b <= r.m /\ r.e <= Len(norm)
                /\ Slice(norm, r.b, r.e) \in SurfaceOf(r)

(***************************************************************************)
(* SpecInit: LRLookup(...) and TemplateLookup(...) with a lemmatizer given *)
(***************************************************************************)
InitWords == {EmptyStr, <<"a">>, <<"a", "b">>}

InitDicts ==
    UNION {[keys -> SUBSET InitWords] : keys \in SUBSET {"Noun", "Josa"}}

TemplateArgs ==
    {NoTemplates,
     << <<"Noun">>, <<"Noun", "Josa">>, <<"Noun">> >>,
     << <<"Noun", "Josa", "Josa">>, <<"Noun">> >>}

Unbuilt ==
    /\ strategy = "none"
    /\ pos_to_words = << >>
    /\ lemmatizer = << >>
    /\ templates = << >>
    /\ max_word_len = 0

ConstructInit ==
    /\ Unbuilt
    /\ NoCache
    /\ call \in [fn : {"LRLookup"}, pos_to_words : InitDicts,
                 max_word_len : 0..MaxLenArg, lemmatizer : Lemmatizers]
            \cup [fn : {"TemplateLookup"}, pos_to_words : InitDicts,
                  templates : TemplateArgs, lemmatizer : {RuleList}]
    /\ ret = NoRet

\* LRLookup(pos_to_words, max_word_len, lemmatizer)
ConstructLRLookup ==
    /\ call.fn = "LRLookup"
    /\ ret = NoRet
    /\ LET r == LRLookup_init(call.pos_to_words, call.max_word_len)
       IN  IF r.st = "ok"
           THEN /\ strategy' = "LRLookup"
                /\ pos_to_words' = call.pos_to_words
                /\ lemmatizer' = call.lemmatizer
                /\ max_word_len' = r.val
                /\ templates' = << >>
                /\ ret' = [st |-> "ok"]
           ELSE /\ ret' = [st |-> r.st]
                /\ UNCHANGED objVars
    /\ UNCHANGED <<cacheVars, call>>

\* TemplateLookup(pos_to_words, templates, lemmatizer=lemmatizer)
ConstructTemplateLookup ==
    /\ call.fn = "TemplateLookup"
    /\ ret = NoRet
    /\ LET r == TemplateLookup_init(call.pos_to_words, call.templates)
       IN  IF r.st = "ok"
           THEN /\ strategy' = "TemplateLookup"
                /\ pos_to_words' = call.pos_to_words
                /\ lemmatizer' = call.lemmatizer
                /\ max_word_len' = r.val
                /\ templates' = r.templates
                /\ ret' = [st |-> "ok"]
           ELSE /\ ret' = [st |-> r.st]
                /\ UNCHANGED objVars
    /\ UNCHANGED <<cacheVars, call>>

ConstructNext == ConstructLRLookup \/ ConstructTemplateLookup

SpecInit == ConstructInit /\ [][ConstructNext]_vars

\* max_len has to be derived: LRLookup got max_word_len = 0, TemplateLookup always
Derives == call.fn = "TemplateLookup" \/ call.max_word_len = 0

\* C9: when max_len is derived from the dictionary, construction either fails
\* with ValueError or ends with max_word_len > 0.
C9_PositiveOrError ==
    (Derives /\ ret.st # "none") =>
        \/ ret.st = "ValueError"
        \/ ret.st = "ok" /\ max_word_len > 0

(***************************************************************************)
(* SpecPrune: remove_sub on the lattices template_lookup hands it, applied *)
(* once and then once more to its own result.                              *)
(***************************************************************************)
PruneDicts ==
    {[tag \in {"Noun", "Josa"} |-> IF tag = "Noun" THEN nouns ELSE josas] :
        nouns \in SUBSET {<<"a">>, <<"a", "b">>},
        josas \in SUBSET {<<"a">>, <<"b">>, <<"b", "a">>}}

PruneTemplates ==
    {<< <<"Noun">>, <<"Noun", "Josa">> >>,
     << <<"Noun", "Josa">> >>,
     << <<"Noun">>, <<"Josa">>, <<"Noun", "Josa">> >>,
     << <<"Noun">>, <<"Noun", "Noun">>, <<"Noun", "Josa">> >>}

PruneTokens == StrsOver(KoreanChars, MaxLen) \ {EmptyStr}

\* the lattice template_lookup builds before it calls remove_sub
Combined(eojeol, dic, tpls, max_len, offset) ==
    as_eojeol(string_match(eojeol, dic, max_len), tpls, offset)

PruneInit ==
    /\ strategy = "TemplateLookup"
    /\ pos_to_words \in PruneDicts
    /\ lemmatizer = RuleList
    /\ \E tpls \in PruneTemplates :
           templates = TemplateLookup_init(pos_to_words, tpls).templates
    /\ max_word_len = LRLookup_init(pos_to_words, 0).val
    /\ NoCache
    /\ \E eojeol \in PruneTokens, offset \in Offsets :
           LET L == Combined(eojeol, pos_to_words, templates, max_word_len, offset)
           IN  call = [fn |-> "remove_sub", bindex |-> L, offset |-> offset,
                       pass |-> 1, first |-> L]
    /\ ret = NoRet

RemoveSubCall ==
    /\ call.fn = "remove_sub"
    /\ ret = NoRet
    /\ ret' = Ok(remove_sub(call.bindex, call.offset))
    /\ UNCHANGED <<objVars, cacheVars, call>>

\* remove_sub(remove_sub(L, offset), offset)
RemoveSubAgain ==
    /\ call.fn = "remove_sub"
    /\ ret.st = "ok"
    /\ call.pass = 1
    /\ call' = [call EXCEPT !.bindex = ret.val, !.pass = 2]
    /\ ret' = Ok(remove_sub(ret.val, call.offset))
    /\ UNCHANGED <<objVars, cacheVars>>

PruneNext == RemoveSubCall \/ RemoveSubAgain

SpecPrune == PruneInit /\ [][PruneNext]_vars

Count(s, x) == Cardinality({i \in DOMAIN s : s[i] = x})

SameBag(s, t) == \A x \in Range(s) \cup Range(t) : Count(s, x) = Count(t, x)

\* C8: a second run of remove_sub leaves every bucket with the same multiset
\* of records as the first run did.
C8_Idempotent ==
    (call.fn = "remove_sub" /\ call.pass = 2) =>
        /\ Len(ret.val) = Len(call.bindex)
        /\ \A k \in DOMAIN ret.val : SameBag(ret.val[k], call.bindex[k])

C8_Witness ==
    /\ call.fn = "remove_sub" /\ call.pass = 2
    /\ call.bindex # call.first
    /\ \E k \in DOMAIN ret.val : Len(ret.val[k]) > 1

AllRecords(L) == UNION {Range(L[k]) : k \in DOMAIN L}

\* non-overlapped, the test taken over the whole lattice
FreeInLattice(r, L) ==
    /\ r.w1 # EmptyStr
    /\ ~\E q \in AllRecords(L) \ {r} : q.b < r.e /\ q.m > r.m

\* non-overlapped, the test taken over the buckets of the starts in [m, e)
FreeInSpan(r, L, offset) ==
    /\ r.w1 # EmptyStr
    /\ ~\E i \in r.m..(r.e - 1) :
           \E q \in Range(L[i - offset + 1]) \ {r} : q.b < r.e /\ q.m > r.m

\* the pruning rules of a bucket, given its non-overlapped two-part records
Dominated(r, free) ==
    \/ r.w1 = EmptyStr
       /\ \E q \in free : q.b = r.b /\ q.m = r.m /\ q.t0 = r.t0
    \/ r.w1 # EmptyStr
       /\ \E q \in free : q.m = r.m /\ q.t1 = r.t1 /\ q.e > r.e

FirstPass == call.fn = "remove_sub" /\ call.pass = 1 /\ ret.st = "ok"

is_pos_feature(r, ext) ==
    \/ r \in ext.predicators
    \/ r \in ext.pos_features
    \/ r \in ext.common_features

\* the loop of is_noun_josa, from inner split i on
RECURSIVE is_noun_josa_loop(_, _, _)
is_noun_josa_loop(prefix, i, ext) ==
    IF i >= Len(prefix) THEN FALSE
    ELSE IF Slice(prefix, 0, i) \in DOMAIN ext.nouns
            /\ is_pos_feature(Slice(prefix, i, Len(prefix)), ext)
         THEN TRUE
         ELSE is_noun_josa_loop(prefix, i + 1, ext)

\* is_noun_josa with its loop started at 1 instead of 2
is_noun_josa_from_one(prefix, ext) ==
    IF prefix \in DOMAIN ext.nouns THEN TRUE
    ELSE is_noun_josa_loop(prefix, 1, ext)

is_noun_josa(prefix, ext) ==
    IF prefix \in DOMAIN ext.nouns THEN TRUE
    ELSE is_noun_josa_loop(prefix, 2, ext)

\* the loop "for i in range(-1, -n + 1, -1)", from i = -j on
RECURSIVE compound_loop(_, _, _)
compound_loop(noun, j, ext) ==
    LET n == Len(noun)
        prefix == Slice(noun, 0, n - j)
        suffix == Slice(noun, n - j, n)
    IN  IF ~(-j > -n + 1) THEN FALSE
        ELSE IF (prefix \in ext.predicators) /\ (suffix \in ext.predicators)
             THEN TRUE
        ELSE IF is_noun_josa(prefix, ext) /\ (suffix \in ext.predicators)
             THEN TRUE
        ELSE compound_loop(noun, j + 1, ext)

_is_noun_predicator_compound(noun, ext) ==
    IF noun \in ext.predicators THEN TRUE
    ELSE compound_loop(noun, 1, ext)

_remove_confused_nouns(ext) ==
    LET removed == {noun \in DOMAIN ext.nouns :
                        _is_noun_predicator_compound(noun, ext)}
    IN  [nouns_ |-> [noun \in DOMAIN ext.nouns \ removed |-> ext.nouns[noun]],
         removals |-> [noun \in removed |-> ext.nouns[noun]],
         predicators |-> ext.predicators]

(***************************************************************************)
(* SpecPos: the disambiguator on every string and every set of extractor   *)
(* outputs of the universe below.                                          *)
(***************************************************************************)
NounUniverse == {<<"a">>, <<"a", "b">>, <<"a", "b", "b">>, <<"a", "b", "a", "b">>}

PredicatorUniverse == {<<"b">>, <<"a", "b">>}

\* the score the noun extractor gave a noun
ScoreOf(noun) == Len(noun) * 10 + Cardinality({i \in DOMAIN noun : noun[i] = "b"})

Extracted ==
    {[nouns |-> [noun \in ns |-> ScoreOf(noun)], predicators |-> ps,
      pos_features |-> fs, common_features |-> cs] :
        ns \in SUBSET NounUniverse, ps \in SUBSET PredicatorUniverse,
        fs \in SUBSET {<<"b">>}, cs \in SUBSET {<<"a">>}}

PosInit ==
    /\ Unbuilt
    /\ NoCache
    /\ call \in [fn : {"_is_noun_predicator_compound"},
                 noun : StrsOver(KoreanChars, MaxNounLen), ext : Extracted]
            \cup [fn : {"_remove_confused_nouns"}, ext : Extracted]
    /\ ret = NoRet

IsCompoundCall ==
    /\ call.fn = "_is_noun_predicator_compound"
    /\ ret = NoRet
    /\ ret' = Ok(_is_noun_predicator_compound(call.noun, call.ext))
    /\ UNCHANGED <<objVars, cacheVars, call>>

RemoveConfusedNounsCall ==
    /\ call.fn = "_remove_confused_nouns"
    /\ ret = NoRet
    /\ ret' = Ok(_remove_confused_nouns(call.ext))
    /\ UNCHANGED <<objVars, cacheVars, call>>

PosNext == IsCompoundCall \/ RemoveConfusedNounsCall

SpecPos == PosInit /\ [][PosNext]_vars

Feature(r, ext) ==
    r \in ext.predicators \cup ext.pos_features \cup ext.common_features

\* the condition of C7; firstInner is the shortest inner-left part tried and
\* featureSuffix says whether a feature string is accepted as the suffix
CompoundIf(w, ext, firstInner, featureSuffix) ==
    LET n == Len(w)
    IN  \/ w \in ext.predicators
        \/ \E j \in 1..(n - 2) :
              LET prefix == Slice(w, 0, n - j)
                  suffix == Slice(w, n - j, n)
              IN  \/ prefix \in ext.predicators /\ suffix \in ext.predicators
                  \/ /\ \/ prefix \in DOMAIN ext.nouns
                        \/ \E i \in firstInner..(Len(prefix) - 1) :
                              /\ Slice(prefix, 0, i) \in DOMAIN ext.nouns
                              /\ Feature(Slice(prefix, i, Len(prefix)), ext)
                     /\ \/ suffix \in ext.predicators
                        \/ featureSuffix /\ Feature(suffix, ext)

\* what C7 says of a finished call, under the condition above
DisambiguatesBy(firstInner, featureSuffix) ==
    /\ (call.fn = "_is_noun_predicator_compound" /\ ret.st = "ok") =>
           (ret.val <=> CompoundIf(call.noun, call.ext, firstInner, featureSuffix))
    /\ (call.fn = "_remove_confused_nouns" /\ ret.st = "ok") =>
           \A w \in DOMAIN call.ext.nouns :
               IF CompoundIf(w, call.ext, firstInner, featureSuffix)
               THEN w \notin DOMAIN ret.val.nouns_
                    /\ w \in DOMAIN ret.val.removals
                    /\ ret.val.removals[w] = call.ext.nouns[w]
               ELSE w \notin DOMAIN ret.val.removals
                    /\ w \in DOMAIN ret.val.nouns_
                    /\ ret.val.nouns_[w] = call.ext.nouns[w]

\* C7 as claimed: compound exactly when w is a predicator or some split with a
\* suffix of 1..n-2 characters has predicator + predicator, or a prefix that is
\* a noun or noun + feature at any inner split and a suffix that is a
\* predicator or a feature string; otherwise w is kept with its score.
C7_CompoundAsClaimed == DisambiguatesBy(1, TRUE)

\* C7 amended: the suffix has to be a known predicator (a feature string is
\* not enough), and the inner split of the prefix leaves a noun of at least
\* two characters.
C7_CompoundAsCoded == DisambiguatesBy(2, FALSE)

\* a noun is kept, and another is removed that no split into a known noun or
\* predicator and a predicator explains: only an inner split of its prefix does
C7_Witness ==
    /\ call.fn = "_remove_confused_nouns" /\ ret.st = "ok"
    /\ DOMAIN ret.val.nouns_ # {}
    /\ \E w \in DOMAIN ret.val.removals :
           /\ w \notin call.ext.predicators
           /\ \A j \in 1..(Len(w) - 2) :
                  Slice(w, 0, Len(w) - j) \in
                      (DOMAIN call.ext.nouns \cup call.ext.predicators)
                  => Slice(w, Len(w) - j, Len(w)) \notin call.ext.predicators

(***************************************************************************)
(* LookupBuffer                                                            *)
(* _buffer_counter is the sequence of its items [k, v] in dict order.      *)
(***************************************************************************)
CounterKeys(counter) == {counter[i].k : i \in DOMAIN counter}

\* self._buffer_counter.get(key, 0)
CounterGet(counter, key) ==
    IF key \in CounterKeys(counter)
    THEN (CHOOSE x \in Range(counter) : x.k = key).v
    ELSE 0

\* self._buffer_counter[key] = v
CounterSet(counter, key, v) ==
    IF key \in CounterKeys(counter)
    THEN [i \in DOMAIN counter |->
             IF counter[i].k = key THEN [k |-> key, v |-> v] ELSE counter[i]]
    ELSE Append(counter, [k |-> key, v |-> v])

\* buffer[key] = v
DictSet(d, key, v) == [x \in DOMAIN d \cup {key} |-> IF x = key THEN v ELSE d[x]]

\* LookupBuffer.__init__(lookup, preanalyzed): the counter of a fresh buffer
init_counter(pre) ==
    LET keys == SetToSeq(DOMAIN pre)
    IN  [i \in DOMAIN keys |-> [k |-> keys[i], v |-> 0]]

\* eojeol_lookup with the count written only when the strategy was called
buffer_eojeol_lookup_count_on_miss(c, obj, eojeol, offset) ==
    LET count == CounterGet(c.counter, eojeol)
        miss == (count = 0)
        result == IF miss THEN eojeol_lookup(obj, eojeol, offset)
                  ELSE c.buffer[eojeol]
    IN  [buffer |-> IF miss THEN DictSet(c.buffer, eojeol, result) ELSE c.buffer,
         counter |-> IF miss THEN CounterSet(c.counter, eojeol, count + 1)
                     ELSE c.counter,
         result |-> result,
         miss |-> miss]

\* LookupBuffer.eojeol_lookup on the cache c = [buffer, counter] wrapping obj
buffer_eojeol_lookup(c, obj, eojeol, offset) ==
    LET count == CounterGet(c.counter, eojeol)
        miss == (count = 0)
        result == IF miss THEN eojeol_lookup(obj, eojeol, offset)
                  ELSE c.buffer[eojeol]
    IN  [buffer |-> IF miss THEN DictSet(c.buffer, eojeol, result) ELSE c.buffer,
         counter |-> CounterSet(c.counter, eojeol, count + 1),
         result |-> result,
         miss |-> miss]

\* sorted(items, key=lambda x: -x[1]): a stable sort, largest count first
RECURSIVE sorted_by_count(_)
sorted_by_count(items) ==
    IF items = << >> THEN << >>
    ELSE LET x == items[Len(items)]
             rest == sorted_by_count(SubSeq(items, 1, Len(items) - 1))
         IN  SelectSeq(rest, LAMBDA y : y.v >= x.v) \o <<x>>
             \o SelectSeq(rest, LAMBDA y : y.v < x.v)

\* compatify_buffer keeping the last topk items of the sorted list
compatify_buffer_keep_last(c, topk) ==
    IF Len(c.counter) <= topk THEN c
    ELSE LET all == sorted_by_count(c.counter)
             counter == SubSeq(all, Len(all) - topk + 1, Len(all))
         IN  [buffer |-> [key \in DOMAIN c.buffer \cap CounterKeys(counter)
                             |-> c.buffer[key]],
              counter |-> counter]

\* LookupBuffer.compatify_buffer(topk) for topk >= 0
compatify_buffer(c, topk) ==
    IF Len(c.counter) <= topk THEN c
    ELSE LET counter == SubSeq(sorted_by_count(c.counter), 1, topk)
         IN  [buffer |-> [key \in DOMAIN c.buffer \cap CounterKeys(counter)
                             |-> c.buffer[key]],
              counter |-> counter]

\* the loop of LookupBuffer.sentence_lookup; h carries the cache, the history
\* and the sentence lattice built so far
RECURSIVE buffer_sentence_loop(_, _, _)
buffer_sentence_loop(h, obj, tokens) ==
    IF tokens = << >> THEN h
    ELSE LET eojeol == Head(tokens)
             r == buffer_eojeol_lookup(h.c, obj, eojeol, Len(h.sent))
         IN  buffer_sentence_loop(
                 [c |-> [buffer |-> r.buffer, counter |-> r.counter],
                  sent |-> h.sent \o r.result,
                  calls |-> IF r.miss
                            THEN [h.calls EXCEPT ![eojeol] = @ + 1] ELSE h.calls,
                  lookups |-> [h.lookups EXCEPT ![eojeol] = @ + 1],
                  evicted |-> IF r.miss THEN h.evicted \ {eojeol} ELSE h.evicted],
                 obj, Tail(tokens))

(***************************************************************************)
(* Spec: a LookupBuffer around an LRLookup or a TemplateLookup, through    *)
(* any sequence of eojeol_lookup, sentence_lookup and compatify_buffer.    *)
(***************************************************************************)
CacheTokenSeq == << <<"a">>, <<"a", "b">>, <<"b", "a">> >>

CacheTokens == Range(CacheTokenSeq)

\* two tokens a space apart, or the same token twice two spaces apart
CacheSentences ==
    {s \o <<Space>> \o t : s \in CacheTokens, t \in CacheTokens}
    \cup {t \o <<Space, Space>> \o t : t \in CacheTokens}

CacheDict == [tag \in {"Noun", "Josa"} |->
                 IF tag = "Noun" THEN {<<"a">>} ELSE {<<"b">>}]

\* the preanalyzed dicts a buffer is built with: none, or one analysis of "ab"
Preanalyzed ==
    {<< >>,
     [t \in {<<"a", "b">>} |->
         << <<Eojeol(<<"a", "b">>, EmptyStr, "Noun", NoneTag, 0, 2, 2)>>, << >> >>]}

Cache == [buffer |-> buffer, counter |-> _buffer_counter]

TotalLookups == SeqSum([i \in DOMAIN CacheTokenSeq |-> lookups[CacheTokenSeq[i]]])

Init ==
    /\ strategy \in {"LRLookup", "TemplateLookup"}
    /\ pos_to_words = CacheDict
    /\ lemmatizer = SubSeq(RuleList, 1, 1)
    /\ templates = IF strategy = "TemplateLookup"
                   THEN TemplateLookup_init(pos_to_words, NoTemplates).templates
                   ELSE << >>
    /\ max_word_len = LRLookup_init(pos_to_words, 0).val
    /\ buffer \in Preanalyzed
    /\ _buffer_counter = init_counter(buffer)
    /\ preanalyzed = DOMAIN buffer
    /\ calls = [t \in CacheTokens |-> 0]
    /\ lookups = [t \in CacheTokens |-> 0]
    /\ evicted = {}
    /\ compacted = FALSE
    /\ call = [fn |-> "__init__"]
    /\ ret = NoRet

\* LookupBuffer.eojeol_lookup(eojeol, offset)
BufferEojeolLookup ==
    /\ TotalLookups < MaxLookups
    /\ \E eojeol \in CacheTokens, offset \in Offsets :
           LET r == buffer_eojeol_lookup(Cache, Self, eojeol, offset)
           IN  /\ buffer' = r.buffer
               /\ _buffer_counter' = r.counter
               /\ calls' = IF r.miss THEN [calls EXCEPT ![eojeol] = @ + 1] ELSE calls
               /\ lookups' = [lookups EXCEPT ![eojeol] = @ + 1]
               /\ evicted' = IF r.miss THEN evicted \ {eojeol} ELSE evicted
               /\ call' = [fn |-> "eojeol_lookup", eojeol |-> eojeol,
                           offset |-> offset, was_evicted |-> eojeol \in evicted]
               /\ ret' = [st |-> "ok", val |-> r.result, miss |-> r.miss]
    /\ UNCHANGED <<objVars, preanalyzed, compacted>>

\* LookupBuffer.sentence_lookup(sentence)
BufferSentenceLookup ==
    \E sentence \in CacheSentences :
        LET tokens == Split(remove_doublespace(sentence))
            h == buffer_sentence_loop(
                     [c |-> Cache, sent |-> << >>, calls |-> calls,
                      lookups |-> lookups, evicted |-> evicted], Self, tokens)
        IN  /\ TotalLookups + Len(tokens) <= MaxLookups
            /\ buffer' = h.c.buffer
            /\ _buffer_counter' = h.c.counter
            /\ calls' = h.calls
            /\ lookups' = h.lookups
            /\ evicted' = h.evicted
            /\ call' = [fn |-> "sentence_lookup", sentence |-> sentence]
            /\ ret' = [st |-> "ok", val |-> h.sent]
            /\ UNCHANGED <<objVars, preanalyzed, compacted>>

\* LookupBuffer.compatify_buffer(topk)
CompatifyBuffer ==
    \E topk \in 0..MaxTopK :
        LET c == compatify_buffer(Cache, topk)
        IN  /\ buffer' = c.buffer
            /\ _buffer_counter' = c.counter
            /\ evicted' = evicted \cup
                              (CounterKeys(_buffer_counter) \ CounterKeys(c.counter))
            /\ compacted' = (compacted \/ c # Cache)
            /\ call' = [fn |-> "compatify_buffer", topk |-> topk, before |-> Cache]
            /\ ret' = [st |-> "ok"]
            /\ UNCHANGED <<objVars, preanalyzed, calls, lookups>>

Next == BufferEojeolLookup \/ BufferSentenceLookup \/ CompatifyBuffer

Spec == Init /\ [][Next]_vars

(***************************************************************************)
(* Claims on Spec.                                                         *)
(***************************************************************************)
\* C1: from an empty cache that compatify_buffer has not cut, a token looked
\* up k >= 1 times has had the strategy called once for it, has use count k,
\* and a lookup that did not call the strategy returned the stored result.
C1_CacheCorrectness ==
    (preanalyzed = {} /\ ~compacted) =>
        /\ \A t \in CacheTokens :
               lookups[t] >= 1 =>
                   /\ calls[t] = 1
                   /\ CounterGet(_buffer_counter, t) = lookups[t]
                   /\ t \in DOMAIN buffer
        /\ (call.fn = "eojeol_lookup" /\ lookups[call.eojeol] > 1) =>
               ~ret.miss /\ ret.val = buffer[call.eojeol]

C1_Witness ==
    /\ preanalyzed = {} /\ ~compacted
    /\ call.fn = "eojeol_lookup"
    /\ lookups[call.eojeol] = 3
    /\ ret.val # << << >> >>

\* C2: LookupBuffer.eojeol_lookup(token, offset) returns what the wrapped
\* strategy's eojeol_lookup(token, offset) returns, whatever was looked up before.
C2_CacheTransparency ==
    call.fn = "eojeol_lookup" =>
        ret.val = eojeol_lookup(Self, call.eojeol, call.offset)

\* C3: compatify_buffer(K) on more than K entries leaves exactly K, the same
\* keys in buffer and _buffer_counter, none used less than an evicted one;
\* on at most K entries it changes nothing; and looking up an evicted token
\* calls the strategy again and leaves its use count at 1.
C3_Eviction ==
    /\ call.fn = "compatify_buffer" =>
           LET before == call.before.counter
               kept == CounterKeys(_buffer_counter)
           IN  IF Len(before) > call.topk
               THEN /\ Len(_buffer_counter) = call.topk
                    /\ Cardinality(kept) = call.topk
                    /\ DOMAIN buffer = kept
                    /\ kept \subseteq CounterKeys(before)
                    /\ \A r \in kept :
                           /\ CounterGet(_buffer_counter, r) = CounterGet(before, r)
                           /\ buffer[r] = call.before.buffer[r]
                           /\ \A e \in CounterKeys(before) \ kept :
                                  CounterGet(before, r) >= CounterGet(before, e)
               ELSE /\ _buffer_counter = before
                    /\ buffer = call.before.buffer
    /\ (call.fn = "eojeol_lookup" /\ call.was_evicted) =>
           /\ ret.miss
           /\ CounterGet(_buffer_counter, call.eojeol) = 1

\* an evicted token is looked up again while another token stayed cached
C3_Witness ==
    /\ call.fn = "eojeol_lookup" /\ call.was_evicted
    /\ calls[call.eojeol] = 2
    /\ Len(_buffer_counter) >= 2

====
